---- MODULE Spec2Model ----
(***************************************************************************)
(* PIN service of the desktop application: the LockoutManager state        *)
(* machine and the PinService operations built on it                       *)
(* (src/src/main/modules/system/PinService.ts).                            *)
(*                                                                         *)
(* Time is the value of Date.now() in milliseconds.  Byte strings produced *)
(* by pbkdf2Sync are symbolic terms <<label, pin, salt>>: two derived      *)
(* values are equal exactly when the digest, the PIN and the salt are.     *)
(* Random salts are fresh numbers drawn from a counter.                    *)
(***************************************************************************)
EXTENDS Integers, Sequences, FiniteSets, TLC

\* --------------------------------------------------------------------------
\* Bounds of the model
\* --------------------------------------------------------------------------
MaxTicks == 4
MaxCreates == 1
\* attempts the callers of the race make in all
MaxRounds == 3

\* --------------------------------------------------------------------------
\* CONFIG
\* --------------------------------------------------------------------------
MaxAttempts == 5
BaseLockoutMs == 5 * 60 * 1000
\* an attempt reset window of an hour
AttemptResetWindowHour == 60 * 60 * 1000
AttemptResetMs == 15 * 60 * 1000
MaxLockoutMultiplier == 12
HashKeyLength == 64
SaltLength == 32

\* one step of the clock
TickMs == BaseLockoutMs
StartMs == TickMs
MaxNow == StartMs + MaxTicks * TickMs

\* JavaScript null / undefined of a numeric field
Null == -1

Truthy(x) == x # Null /\ x # 0

Min(a, b) == IF a <= b THEN a ELSE b

\* Math.ceil(a / b) for a >= 0, b > 0
Ceil(a, b) == (a + b - 1) \div b

\* --------------------------------------------------------------------------
\* PINs as the caller types them: sequences of characters
\* --------------------------------------------------------------------------
Digits == {"0", "1", "2", "3", "4", "5", "6", "7", "8", "9"}

Pin1 == <<"1", "1", "1", "1", "1", "1">>
Pin2 == <<"2", "2", "2", "2", "2", "2">>
GoodPins == {Pin1, Pin2}
BadPins == { <<"1", "2", "3", "4", "5">>, <<"1", "2", "3", "4", "5", "a">> }
PinInputs == GoodPins \cup BadPins

\* ValidatePinFormat with the pattern \d+ in place of \d{6}
ValidatePinFormatNoLength(pin) == \A i \in 1..Len(pin) : pin[i] \in Digits

ValidatePinFormat(pin) == Len(pin) = 6 /\ \A i \in 1..Len(pin) : pin[i] \in Digits

\* --------------------------------------------------------------------------
\* Buffers, base64 strings, key derivation
\* --------------------------------------------------------------------------
ToBase64(buf) == <<"b64", buf>>

\* Buffer.from(str, 'base64') skips white space: two spellings decode to the same bytes
FromBase64(str) == IF Len(str) >= 2 THEN str[2] ELSE <<>>

\* the same base64 text with a line break at its end
Respelled(str) == IF str = <<>> THEN str ELSE Append(str, "\n")

RandomBytes(n) == <<"rnd", n>>

HashPin(pin, salt) == <<"pbkdf2-sha512", pin, salt>>

DeriveEncryptionKey(pin, salt) == <<"pbkdf2-sha256", pin, salt>>

NoKey == <<>>

\* a string argument the callee gets as null, and the null it returns
NullData == <<>>

\* a JavaScript string: the sequence of its UTF-16 code units
Str(units) == <<"str", units>>

IsHighSurrogate(u) == u >= 55296 /\ u <= 56319

IsLowSurrogate(u) == u >= 56320 /\ u <= 57343

ReplacementCharacter == 65533

\* the bytes UTF-8 gives a code point
Utf8OfCodePoint(c) ==
    IF c < 128 THEN <<c>>
    ELSE IF c < 2048 THEN <<192 + (c \div 64), 128 + (c % 64)>>
    ELSE IF c < 65536
         THEN <<224 + (c \div 4096), 128 + ((c \div 64) % 64), 128 + (c % 64)>>
         ELSE <<240 + (c \div 262144), 128 + ((c \div 4096) % 64),
                128 + ((c \div 64) % 64), 128 + (c % 64)>>

\* cipher.update(data, 'utf8'): a surrogate pair is one code point, a surrogate
\* without its partner is written as U+FFFD
RECURSIVE Utf8EncodeUnits(_)
Utf8EncodeUnits(units) ==
    IF units = <<>> THEN <<>>
    ELSE LET u == Head(units)
         IN  IF IsHighSurrogate(u) /\ Len(units) >= 2 /\ IsLowSurrogate(units[2])
             THEN Utf8OfCodePoint(65536 + (u - 55296) * 1024 + (units[2] - 56320))
                      \o Utf8EncodeUnits(Tail(Tail(units)))
             ELSE IF IsHighSurrogate(u) \/ IsLowSurrogate(u)
                  THEN Utf8OfCodePoint(ReplacementCharacter) \o Utf8EncodeUnits(Tail(units))
                  ELSE Utf8OfCodePoint(u) \o Utf8EncodeUnits(Tail(units))

Utf8Encode(str) == Utf8EncodeUnits(str[2])

\* the code units of one code point
Utf16OfCodePoint(c) ==
    IF c < 65536 THEN <<c>>
    ELSE <<55296 + ((c - 65536) \div 1024), 56320 + ((c - 65536) % 1024)>>

\* buffer.toString('utf8'): a sequence that is cut short decodes to U+FFFD
RECURSIVE Utf8DecodeBytes(_)
Utf8DecodeBytes(bytes) ==
    IF bytes = <<>> THEN <<>>
    ELSE LET b == Head(bytes)
             n == IF b < 128 THEN 1 ELSE IF b < 224 THEN 2 ELSE IF b < 240 THEN 3 ELSE 4
             c == IF n = 1 THEN b
                  ELSE IF n = 2 THEN (b - 192) * 64 + (bytes[2] - 128)
                  ELSE IF n = 3
                       THEN (b - 224) * 4096 + (bytes[2] - 128) * 64 + (bytes[3] - 128)
                       ELSE (b - 240) * 262144 + (bytes[2] - 128) * 4096
                                + (bytes[3] - 128) * 64 + (bytes[4] - 128)
         IN  IF Len(bytes) < n \/ (b >= 128 /\ b < 192)
             THEN <<ReplacementCharacter>> \o Utf8DecodeBytes(Tail(bytes))
             ELSE Utf16OfCodePoint(c) \o Utf8DecodeBytes(SubSeq(bytes, n + 1, Len(bytes)))

\* Utf8Decode with every byte read as one character (toString('latin1'))
Utf8DecodeLatin1(bytes) == Str(bytes)

Utf8Decode(bytes) == Str(Utf8DecodeBytes(bytes))

\* aes-256-gcm as an ideal AEAD: the ciphertext is bound to key, nonce and plaintext,
\* the tag to key, nonce and ciphertext
GcmCiphertext(key, iv, data) == <<"gcm", key, iv, data>>

GcmAuthTag(key, iv, ciphertext) == <<"tag", key, iv, ciphertext>>

EncryptWithKey(data, key, iv) ==
    LET encrypted == GcmCiphertext(key, iv, Utf8Encode(data))
        authTag == GcmAuthTag(key, iv, encrypted)
        combined == <<iv, authTag, encrypted>>
    IN  ToBase64(combined)

\* DecryptWithKey that returns what the cipher gives without decipher.final()'s check
\* of the tag
DecryptWithKeyUnauthenticated(encryptedData, key) ==
    LET combined == FromBase64(encryptedData)
    IN  IF Len(combined) # 3 THEN NullData
        ELSE IF Len(combined[3]) = 4 /\ combined[3][1] = "gcm"
             THEN Utf8Decode(combined[3][4])
             ELSE Utf8Decode(<<128>>)

\* a blob too short to hold nonce and tag, or a tag that does not match key, nonce and
\* ciphertext, makes createDecipheriv, setAuthTag or final() throw: null
DecryptWithKey(encryptedData, key) ==
    LET combined == FromBase64(encryptedData)
    IN  IF Len(combined) # 3 THEN NullData
        ELSE LET iv == combined[1]
                 authTag == combined[2]
                 ciphertext == combined[3]
             IN  IF authTag = GcmAuthTag(key, iv, ciphertext)
                 THEN Utf8Decode(ciphertext[4])
                 ELSE NullData

\* --------------------------------------------------------------------------
\* LockoutManager
\* --------------------------------------------------------------------------
CreateDefaultState == [count |-> 0, lastAttempt |-> 0, lockedUntil |-> Null, lockoutCount |-> 0]

\* CalculateLockoutDuration without Math.min
CalculateLockoutDurationUncapped(s) == BaseLockoutMs * (s.lockoutCount + 1)

CalculateLockoutDuration(s) ==
    BaseLockoutMs * Min(s.lockoutCount + 1, MaxLockoutMultiplier)

\* the lockout member of a parsed PinData: typ tells what JSON.parse gave
\* ("ok": an object with numeric count, lastAttempt and lockoutCount)
UndefinedLockout == [typ |-> "undefined", count |-> 0, lastAttempt |-> 0,
                     lockedUntil |-> Null, lockoutCount |-> 0]

\* an object whose lastAttempt is not a number ("lastAttemptMissing": the member is
\* absent, which reads as undefined), with three failures and two lockouts counted
PartialLockout == [typ |-> "lastAttemptMissing", count |-> 3, lastAttempt |-> 0,
                   lockedUntil |-> Null, lockoutCount |-> 2]

\* IsValidLockoutState that accepts every object
IsValidLockoutStateAnyObject(l) == l.typ # "undefined"

IsValidLockoutState(l) == l.typ = "ok"

Serialize(s) == [typ |-> "ok", count |-> s.count, lastAttempt |-> s.lastAttempt,
                 lockedUntil |-> s.lockedUntil, lockoutCount |-> s.lockoutCount]

\* LoadFromPinData that forgets lockoutCount when the lock has expired
LoadFromPinDataForgetful(l, t) ==
    IF l.typ = "undefined" \/ ~IsValidLockoutState(l)
    THEN CreateDefaultState
    ELSE IF Truthy(l.lockedUntil) /\ t >= l.lockedUntil
         THEN CreateDefaultState
         ELSE IF Truthy(l.lastAttempt) /\ t - l.lastAttempt > AttemptResetMs
              THEN CreateDefaultState
              ELSE [count |-> l.count, lastAttempt |-> l.lastAttempt,
                    lockedUntil |-> l.lockedUntil, lockoutCount |-> l.lockoutCount]

\* LoadFromPinData that keeps the count of a snapshot whose lock has expired
LoadFromPinDataKeepsCount(l, t) ==
    IF l.typ = "undefined" \/ ~IsValidLockoutState(l)
    THEN CreateDefaultState
    ELSE IF Truthy(l.lockedUntil) /\ t >= l.lockedUntil
         THEN [count |-> l.count, lastAttempt |-> 0, lockedUntil |-> Null,
               lockoutCount |-> l.lockoutCount]
         ELSE IF Truthy(l.lastAttempt) /\ t - l.lastAttempt > AttemptResetMs
              THEN CreateDefaultState
              ELSE [count |-> l.count, lastAttempt |-> l.lastAttempt,
                    lockedUntil |-> l.lockedUntil, lockoutCount |-> l.lockoutCount]

LoadFromPinData(l, t) ==
    IF l.typ = "undefined" \/ ~IsValidLockoutState(l)
    THEN CreateDefaultState
    ELSE IF Truthy(l.lockedUntil) /\ t >= l.lockedUntil
         THEN [count |-> 0, lastAttempt |-> 0, lockedUntil |-> Null,
               lockoutCount |-> l.lockoutCount]
         ELSE IF Truthy(l.lastAttempt) /\ t - l.lastAttempt > AttemptResetMs
              THEN CreateDefaultState
              ELSE [count |-> l.count, lastAttempt |-> l.lastAttempt,
                    lockedUntil |-> l.lockedUntil, lockoutCount |-> l.lockoutCount]

CheckAndUpdateExpiry(s, t) ==
    LET s1 == IF Truthy(s.lockedUntil) /\ t >= s.lockedUntil
              THEN [s EXCEPT !.lockedUntil = Null, !.count = 0]
              ELSE s
    IN  IF Truthy(s1.lastAttempt) /\ t - s1.lastAttempt > AttemptResetMs
        THEN CreateDefaultState
        ELSE s1

IsLocked(s, t) ==
    IF Truthy(s.lockedUntil) /\ t < s.lockedUntil
    THEN [locked |-> TRUE, seconds |-> Ceil(s.lockedUntil - t, 1000)]
    ELSE [locked |-> FALSE, seconds |-> Null]

\* RecordFailure with the threshold compared by > instead of >=
RecordFailureLateThreshold(s, t) ==
    LET s1 == [s EXCEPT !.count = s.count + 1, !.lastAttempt = t]
    IN  IF s1.count > MaxAttempts
        THEN [state |-> [s1 EXCEPT !.lockedUntil = t + BaseLockoutMs], locked |-> TRUE,
              remainingAttempts |-> 0, lockoutSeconds |-> Ceil(BaseLockoutMs, 1000)]
        ELSE [state |-> s1, locked |-> FALSE,
              remainingAttempts |-> MaxAttempts - s1.count, lockoutSeconds |-> Null]

RecordFailure(s, t) ==
    LET s1 == [s EXCEPT !.count = s.count + 1, !.lastAttempt = t]
        remainingAttempts == MaxAttempts - s1.count
    IN  IF s1.count >= MaxAttempts
        THEN LET s2 == [s1 EXCEPT !.lockoutCount =
                                     Min(s1.lockoutCount + 1, MaxLockoutMultiplier)]
                 lockoutDuration == CalculateLockoutDuration(s2)
             IN  [state |-> [s2 EXCEPT !.lockedUntil = t + lockoutDuration],
                  locked |-> TRUE, remainingAttempts |-> 0,
                  lockoutSeconds |-> Ceil(lockoutDuration, 1000)]
        ELSE [state |-> s1, locked |-> FALSE,
              remainingAttempts |-> remainingAttempts, lockoutSeconds |-> Null]

RecordSuccess == CreateDefaultState

\* ApplyMaxLockout that sets the lock and leaves the count at zero
ApplyMaxLockoutNoCount(t) ==
    LET lockoutDuration == BaseLockoutMs * MaxLockoutMultiplier
    IN  [state |-> [count |-> 0, lastAttempt |-> t,
                    lockedUntil |-> t + lockoutDuration,
                    lockoutCount |-> MaxLockoutMultiplier],
         seconds |-> Ceil(lockoutDuration, 1000)]

ApplyMaxLockout(t) ==
    LET lockoutDuration == BaseLockoutMs * MaxLockoutMultiplier
    IN  [state |-> [count |-> MaxAttempts, lastAttempt |-> t,
                    lockedUntil |-> t + lockoutDuration,
                    lockoutCount |-> MaxLockoutMultiplier],
         seconds |-> Ceil(lockoutDuration, 1000)]

Reset == CreateDefaultState

GetStatus(s, t) ==
    LET lockCheck == IsLocked(s, t)
    IN  IF lockCheck.locked
        THEN [locked |-> TRUE, lockoutSeconds |-> lockCheck.seconds, remainingAttempts |-> 0]
        ELSE [locked |-> FALSE, lockoutSeconds |-> Null,
              remainingAttempts |-> MaxAttempts - s.count]

\* --------------------------------------------------------------------------
\* PinData, the blobs of the secret store, and what the caller persists
\* --------------------------------------------------------------------------
NoData == [hash |-> <<>>, salt |-> <<>>, encryptionSalt |-> <<>>, lockout |-> UndefinedLockout]

\* a blob is what a caller can hand in as encryptedData: the empty string, a string
\* safeStorage cannot decrypt, or safeStorage's encryption of a JSON payload
EmptyBlob == [kind |-> "empty", data |-> NoData]
GarbageBlob == [kind |-> "garbage", data |-> NoData]
NoHashBlob == [kind |-> "enc", data |-> [NoData EXCEPT !.salt = ToBase64(RandomBytes(0))]]
\* undefined: no updatedEncryptedData member, no argument; null: createPinHash's failure
UndefinedBlob == [kind |-> "undefined", data |-> NoData]
NullBlob == [kind |-> "null", data |-> NoData]

BadBlobs == {EmptyBlob, GarbageBlob, NoHashBlob}

\* a record that passes IsValidPinData and whose hash decodes to 32 bytes, not 64
ShortHashBlob == [kind |-> "enc",
                  data |-> [NoData EXCEPT !.hash = ToBase64(RandomBytes(0)),
                                          !.salt = ToBase64(RandomBytes(0))]]

\* the record without its optional encryptionSalt member
WithoutEncryptionSalt(blob) == [blob EXCEPT !.data.encryptionSalt = <<>>]

\* IsValidPinData without the check of the hash
IsValidPinDataSaltOnly(d) == Len(d.salt) > 0

IsValidPinData(d) == Len(d.hash) > 0 /\ Len(d.salt) > 0

DecryptPinData(encryptedData, isAvailable) ==
    IF encryptedData.kind \in {"empty", "undefined", "null"}
    THEN [ok |-> FALSE, value |-> NoData]
    ELSE IF ~isAvailable
         THEN [ok |-> FALSE, value |-> NoData]
         ELSE IF encryptedData.kind # "enc"
              THEN [ok |-> FALSE, value |-> NoData]
              ELSE IF ~IsValidPinData(encryptedData.data)
                   THEN [ok |-> FALSE, value |-> NoData]
                   ELSE [ok |-> TRUE, value |-> encryptedData.data]

\* encryptThrows: safeStorage.encryptString throws on this call
EncryptPinData(pinData, isAvailable, encryptThrows) ==
    IF ~isAvailable
    THEN [ok |-> FALSE, value |-> UndefinedBlob]
    ELSE IF encryptThrows
         THEN [ok |-> FALSE, value |-> UndefinedBlob]
         ELSE [ok |-> TRUE, value |-> [kind |-> "enc", data |-> pinData]]

\* UpdateLockoutInPinData that returns the record as it was read
UpdateLockoutInPinDataStale(pinData, s) == pinData

UpdateLockoutInPinData(pinData, s) == [pinData EXCEPT !.lockout = Serialize(s)]

\* timingSafeEqual throws a RangeError when the byte lengths differ
ByteLength(buf) ==
    IF buf = <<>> THEN 0
    ELSE IF buf[1] = "pbkdf2-sha512" THEN HashKeyLength
    ELSE SaltLength

\* TimingSafeEqual that compares the lengths only
TimingSafeEqualLengthOnly(a, b) ==
    [threw |-> ByteLength(a) # ByteLength(b), equal |-> ByteLength(a) = ByteLength(b)]

TimingSafeEqual(a, b) ==
    IF ByteLength(a) # ByteLength(b)
    THEN [threw |-> TRUE, equal |-> FALSE]
    ELSE [threw |-> FALSE, equal |-> a = b]

\* --------------------------------------------------------------------------
\* State
\* --------------------------------------------------------------------------
VARIABLES
    now,                    \* Date.now()
    state,                  \* LockoutManager.#state
    isPinVerified,          \* PinService.#isPinVerified
    derivedEncryptionKey,   \* PinService.#derivedEncryptionKey (NoKey: null)
    saltCounter,            \* number of randomBytes salts drawn so far
    persisted,              \* the PIN record blob the caller has stored
    call,                   \* the call that has not returned yet, its arguments
    result,                 \* what that call returns
    created,                \* the PIN of the record persisted by the createPin just made
    run,                    \* results of the wrong attempts made in a row on the chain
    afterReset,             \* resetAttempts() was the last call made
    vault,                  \* the encrypted payload the caller keeps
    callers,                \* the asynchronous callers of verifyPin: where each is
    unlocked,               \* a verifyPin succeeded since the last clearVerification
                            \* or initialize
    session,                \* the PIN and the encryptionSalt string of the verifyPin
                            \* that set the cached key
    sealed,                 \* how the payload kept in vault was encrypted
    issued                  \* the salts of the records createPin has returned, in order,
                            \* where the caller notes them

vars == <<now, state, isPinVerified, derivedEncryptionKey, saltCounter,
          persisted, result, call, created, run, afterReset, vault, callers, unlocked,
          session, sealed, issued>>

\* data: the string encryptWith.../decryptWith... return
NoResult == [success |-> FALSE, locked |-> FALSE, remainingAttempts |-> 0,
             lockoutSeconds |-> Null, blob |-> UndefinedBlob, threw |-> FALSE,
             data |-> NullData]

\* what safeStorage does during one call: it works, isEncryptionAvailable() is
\* false, or it is available and encryptString throws
StoreModes == {"ok", "unavailable", "encryptThrows"}

\* zeroed: the key buffer the call overwrote with zeros; data, salt: the payload and
\* the encryptionSalt string handed to encryptWith.../decryptWith...
NoCall == [op |-> "none", pin |-> <<>>, record |-> UndefinedBlob, store |-> "ok",
           compared |-> FALSE, zeroed |-> NoKey, data |-> NullData, salt |-> <<>>]

Entering(op, pin, record, store) ==
    [NoCall EXCEPT !.op = op, !.pin = pin, !.record = record, !.store = store]

\* no verifyPin has set a key; nothing is kept in vault
NoSession == [pin |-> <<>>, salt |-> <<>>]

NoSeal == [op |-> "none", data |-> NullData, by |-> NoSession]

Callers == {1, 2}

\* a caller before it reads the persisted record.  rounds: the attempts it has made
Waiting == [pc |-> "start", rounds |-> 0]

\* a caller that has read the record.  pin, out: what it enters and what verifyPin
\* returns; inOrder: verifyPin was given the record that was the persisted one then
Reading(record, rounds) ==
    [pc |-> "read", pin |-> <<>>, record |-> record, out |-> NoResult,
     inOrder |-> FALSE, rounds |-> rounds]

Init ==
    /\ now = StartMs
    /\ state = CreateDefaultState
    /\ isPinVerified = FALSE
    /\ derivedEncryptionKey = NoKey
    /\ saltCounter = 0
    /\ persisted = EmptyBlob
    /\ result = NoResult
    /\ call = NoCall
    /\ created = <<>>
    /\ run = <<>>
    /\ afterReset = FALSE
    /\ vault = NullData
    /\ callers = [i \in Callers |-> Waiting]
    /\ unlocked = FALSE
    /\ session = NoSession
    /\ sealed = NoSeal
    /\ issued = <<>>

\* --------------------------------------------------------------------------
\* Environment
\* --------------------------------------------------------------------------
Idle == call.op = "none"

Tick ==
    /\ Idle
    /\ now + TickMs <= MaxNow
    /\ now' = now + TickMs
    /\ created' = <<>>
    /\ afterReset' = FALSE
    /\ UNCHANGED <<state, isPinVerified, derivedEncryptionKey, saltCounter, persisted,
                   result, call, run, vault, callers, unlocked,
                   session, sealed, issued>>

\* the call returns; the caller persists the record handed back, if there is one
Return ==
    /\ ~Idle
    /\ persisted' = IF result.blob.kind = "enc" THEN result.blob ELSE persisted
    /\ result' = NoResult
    /\ call' = NoCall
    /\ UNCHANGED <<now, state, isPinVerified, derivedEncryptionKey, saltCounter,
                   created, run, afterReset, vault, callers, unlocked,
                   session, sealed, issued>>

\* --------------------------------------------------------------------------
\* PinService: what one call computes.  An outcome is the state the call leaves
\* (state, isPinVerified, key), what it returns (result) and whether it reached
\* the hash comparison (compared).
\* --------------------------------------------------------------------------
\* ClearDerivedKey that drops the reference without fill(0)
ClearDerivedKeyNoWipe(key) == [key |-> NoKey, zeroed |-> NoKey]

\* ClearDerivedKey that leaves the key where it is
ClearDerivedKeyNoOp(key) == [key |-> key, zeroed |-> NoKey]

\* zeroed: the buffer overwritten with zeros (NoKey when there was none)
ClearDerivedKey(key) ==
    IF key # NoKey THEN [key |-> NoKey, zeroed |-> key]
    ELSE [key |-> key, zeroed |-> NoKey]

\* SetDerivedKey without the call of ClearDerivedKey
SetDerivedKeyNoWipe(key, pin, salt) ==
    [key |-> DeriveEncryptionKey(pin, salt), zeroed |-> NoKey]

SetDerivedKey(key, pin, salt) ==
    LET cleared == ClearDerivedKey(key)
    IN  [key |-> DeriveEncryptionKey(pin, salt), zeroed |-> cleared.zeroed]

HandleSuccessfulVerification(pin, pinData, key, isAvailable, encryptThrows) ==
    LET s1 == RecordSuccess
        set == IF Len(pinData.encryptionSalt) > 0
               THEN SetDerivedKey(key, pin, FromBase64(pinData.encryptionSalt))
               ELSE [key |-> key, zeroed |-> NoKey]
        updatedPinData == UpdateLockoutInPinData(pinData, s1)
        encryptResult == EncryptPinData(updatedPinData, isAvailable, encryptThrows)
    IN  [state |-> s1,
         isPinVerified |-> TRUE,
         key |-> set.key,
         zeroed |-> set.zeroed,
         compared |-> TRUE,
         result |-> [success |-> TRUE, locked |-> FALSE,
                     remainingAttempts |-> MaxAttempts, lockoutSeconds |-> Null,
                     blob |-> IF encryptResult.ok THEN encryptResult.value ELSE UndefinedBlob,
                     threw |-> FALSE]]

\* HandleFailedVerification that ends the session as clearVerification does
HandleFailedVerificationEndsSession(pinData, s, t, key, verified, isAvailable, encryptThrows) ==
    LET failureResult == RecordFailure(s, t)
        updatedPinData == UpdateLockoutInPinData(pinData, failureResult.state)
        encryptResult == EncryptPinData(updatedPinData, isAvailable, encryptThrows)
        cleared == ClearDerivedKey(key)
    IN  [state |-> failureResult.state,
         isPinVerified |-> FALSE,
         key |-> cleared.key,
         zeroed |-> cleared.zeroed,
         compared |-> TRUE,
         result |-> [success |-> FALSE, locked |-> failureResult.locked,
                     remainingAttempts |-> failureResult.remainingAttempts,
                     lockoutSeconds |-> failureResult.lockoutSeconds,
                     blob |-> IF encryptResult.ok THEN encryptResult.value ELSE UndefinedBlob,
                     threw |-> FALSE]]

HandleFailedVerification(pinData, s, t, key, verified, isAvailable, encryptThrows) ==
    LET failureResult == RecordFailure(s, t)
        updatedPinData == UpdateLockoutInPinData(pinData, failureResult.state)
        encryptResult == EncryptPinData(updatedPinData, isAvailable, encryptThrows)
    IN  [state |-> failureResult.state,
         isPinVerified |-> verified,
         key |-> key,
         zeroed |-> NoKey,
         compared |-> TRUE,
         result |-> [success |-> FALSE, locked |-> failureResult.locked,
                     remainingAttempts |-> failureResult.remainingAttempts,
                     lockoutSeconds |-> failureResult.lockoutSeconds,
                     blob |-> IF encryptResult.ok THEN encryptResult.value ELSE UndefinedBlob,
                     threw |-> FALSE]]

PerformVerification(enteredPin, pinData, s, t, key, verified, isAvailable, encryptThrows) ==
    LET salt == FromBase64(pinData.salt)
        storedHash == FromBase64(pinData.hash)
        enteredHash == HashPin(enteredPin, salt)
        cmp == TimingSafeEqual(storedHash, enteredHash)
    IN  IF cmp.threw
        THEN [state |-> s, isPinVerified |-> verified, key |-> key, zeroed |-> NoKey,
              compared |-> TRUE, result |-> [NoResult EXCEPT !.threw = TRUE]]
        ELSE IF cmp.equal
             THEN HandleSuccessfulVerification(enteredPin, pinData, key,
                                               isAvailable, encryptThrows)
             ELSE HandleFailedVerification(pinData, s, t, key, verified,
                                           isAvailable, encryptThrows)

\* VerifyPinOutcome that does not load the record's snapshot: the lock check and the
\* failure are made on the state the manager holds
VerifyPinOutcomeNoLoad(enteredPin, encryptedData, s, t, key, verified, isAvailable, encryptThrows) ==
    IF ~ValidatePinFormat(enteredPin)
    THEN [state |-> s, isPinVerified |-> verified, key |-> key, zeroed |-> NoKey,
          compared |-> FALSE,
          result |-> [NoResult EXCEPT !.remainingAttempts = MaxAttempts]]
    ELSE LET decryptResult == DecryptPinData(encryptedData, isAvailable)
         IN  IF ~decryptResult.ok
             THEN LET max == ApplyMaxLockout(t)
                  IN  [state |-> max.state, isPinVerified |-> verified, key |-> key,
                       zeroed |-> NoKey, compared |-> FALSE,
                       result |-> [NoResult EXCEPT !.locked = TRUE,
                                                   !.lockoutSeconds = max.seconds]]
             ELSE LET pinData == decryptResult.value
                      s1 == CheckAndUpdateExpiry(s, t)
                      lockCheck == IsLocked(s1, t)
                  IN  IF lockCheck.locked
                      THEN [state |-> s1, isPinVerified |-> verified, key |-> key,
                            zeroed |-> NoKey, compared |-> FALSE,
                            result |-> [NoResult EXCEPT !.locked = TRUE,
                                                        !.lockoutSeconds = lockCheck.seconds]]
                      ELSE PerformVerification(enteredPin, pinData, s1, t, key, verified,
                                               isAvailable, encryptThrows)

VerifyPinOutcome(enteredPin, encryptedData, s, t, key, verified, isAvailable, encryptThrows) ==
    IF ~ValidatePinFormat(enteredPin)
    THEN [state |-> s, isPinVerified |-> verified, key |-> key, zeroed |-> NoKey,
          compared |-> FALSE,
          result |-> [NoResult EXCEPT !.remainingAttempts = MaxAttempts]]
    ELSE LET decryptResult == DecryptPinData(encryptedData, isAvailable)
         IN  IF ~decryptResult.ok
             THEN LET max == ApplyMaxLockout(t)
                  IN  [state |-> max.state, isPinVerified |-> verified, key |-> key,
                       zeroed |-> NoKey, compared |-> FALSE,
                       result |-> [NoResult EXCEPT !.locked = TRUE,
                                                   !.lockoutSeconds = max.seconds]]
             ELSE LET pinData == decryptResult.value
                      s1 == CheckAndUpdateExpiry(LoadFromPinData(pinData.lockout, t), t)
                      lockCheck == IsLocked(s1, t)
                  IN  IF lockCheck.locked
                      THEN [state |-> s1, isPinVerified |-> verified, key |-> key,
                            zeroed |-> NoKey, compared |-> FALSE,
                            result |-> [NoResult EXCEPT !.locked = TRUE,
                                                        !.lockoutSeconds = lockCheck.seconds]]
                      ELSE PerformVerification(enteredPin, pinData, s1, t, key, verified,
                                               isAvailable, encryptThrows)

\* CreatePinHashOutcome that uses the hash salt as the encryption salt too
CreatePinHashOutcomeOneSalt(pin, s, n, isAvailable, encryptThrows) ==
    IF ~isAvailable \/ ~ValidatePinFormat(pin)
    THEN [state |-> s, blob |-> NullBlob, drew |-> FALSE]
    ELSE LET salt == RandomBytes(2 * n + 1)
             pinData == [hash |-> ToBase64(HashPin(pin, salt)), salt |-> ToBase64(salt),
                         encryptionSalt |-> ToBase64(salt), lockout |-> Serialize(s)]
             encryptResult == EncryptPinData(pinData, isAvailable, encryptThrows)
         IN  [state |-> Reset,
              blob |-> IF encryptResult.ok THEN encryptResult.value ELSE NullBlob,
              drew |-> TRUE]

\* createPinHash: the record returned (NullBlob on failure) and the manager's state
CreatePinHashOutcome(pin, s, n, isAvailable, encryptThrows) ==
    IF ~isAvailable
    THEN [state |-> s, blob |-> NullBlob, drew |-> FALSE]
    ELSE IF ~ValidatePinFormat(pin)
         THEN [state |-> s, blob |-> NullBlob, drew |-> FALSE]
         ELSE LET salt == RandomBytes(2 * n + 1)
                  encryptionSalt == RandomBytes(2 * n + 2)
                  hash == HashPin(pin, salt)
                  pinData == [hash |-> ToBase64(hash), salt |-> ToBase64(salt),
                              encryptionSalt |-> ToBase64(encryptionSalt),
                              lockout |-> Serialize(s)]
                  encryptResult == EncryptPinData(pinData, isAvailable, encryptThrows)
              IN  [state |-> Reset,
                   blob |-> IF encryptResult.ok THEN encryptResult.value ELSE NullBlob,
                   drew |-> TRUE]

GetLockoutStatusOutcome(encryptedData, s, t, isAvailable) ==
    LET given == encryptedData.kind \notin {"undefined", "null", "empty"}
        decryptResult == DecryptPinData(encryptedData, isAvailable)
    IN  IF given /\ ~decryptResult.ok
        THEN [state |-> s,
              status |-> [locked |-> TRUE,
                          lockoutSeconds |-> Ceil(BaseLockoutMs * MaxLockoutMultiplier, 1000),
                          remainingAttempts |-> 0]]
        ELSE LET s1 == IF given THEN LoadFromPinData(decryptResult.value.lockout, t) ELSE s
                 s2 == CheckAndUpdateExpiry(s1, t)
             IN  [state |-> s2, status |-> GetStatus(s2, t)]

\* --------------------------------------------------------------------------
\* The public operations.  The caller persists every record a call hands back
\* (createPinHash's record, verifyPin's updatedEncryptedData).
\* --------------------------------------------------------------------------
ZeroLockout == Serialize(CreateDefaultState)

\* the chain of wrong attempts: it starts at a persisted record whose lockout is the
\* zero state and goes on while each wrong attempt is made on the record the previous
\* one returned, no later than the reset window after it
NextRun(pin, rec, o) ==
    LET wrong == /\ rec = persisted
                 /\ o.compared /\ ~o.result.threw /\ ~o.result.success
                 /\ o.result.blob.kind = "enc"
        r == [locked |-> o.result.locked, remainingAttempts |-> o.result.remainingAttempts]
    IN  IF ~ValidatePinFormat(pin) THEN run
        ELSE IF wrong /\ rec.data.lockout = ZeroLockout THEN <<r>>
        ELSE IF /\ wrong /\ run # <<>> /\ Len(run) < MaxAttempts
                /\ now - rec.data.lockout.lastAttempt <= AttemptResetMs
             THEN Append(run, r)
             ELSE <<>>

\* the arguments tried: every PIN with a working store, and the failures of the
\* store where the call gets as far as using it
\* the PINs are interchangeable: the first one created is Pin1, later ones any
CreateInputs(n) ==
    {[pin |-> p, store |-> m] : p \in (IF n = 0 THEN {Pin1} ELSE GoodPins), m \in StoreModes}
        \cup {[pin |-> p, store |-> "ok"] : p \in BadPins}

StoredInputs(stored) ==
    {[pin |-> p, record |-> stored, store |-> m] : p \in GoodPins, m \in StoreModes}

VerifyInputs(stored) ==
    StoredInputs(stored)
        \cup {[pin |-> Pin1, record |-> b, store |-> "ok"] : b \in BadBlobs}
        \cup {[pin |-> p, record |-> stored, store |-> "ok"] : p \in BadPins}
        \cup {[pin |-> Pin1, record |-> ShortHashBlob, store |-> "ok"]}

\* records written without the optional encryptionSalt
LegacyInputs(stored) ==
    {[pin |-> p, record |-> WithoutEncryptionSalt(stored), store |-> "ok"] : p \in GoodPins}

StatusInputs(stored) ==
    {[record |-> b, store |-> "ok"] : b \in {UndefinedBlob, stored} \cup BadBlobs}
        \cup {[record |-> stored, store |-> "unavailable"]}

\* CreatePinUpTo that caches the key of the record it creates
CreatePinUpToRekeying(max) ==
    \E in \in CreateInputs(saltCounter) :
        \E o \in {CreatePinHashOutcome(in.pin, state, saltCounter, in.store # "unavailable",
                                        in.store = "encryptThrows")} :
            /\ Idle
            /\ o.drew => saltCounter < max
            /\ state' = o.state
            /\ saltCounter' = IF o.drew THEN saltCounter + 1 ELSE saltCounter
            /\ result' = [NoResult EXCEPT !.blob = o.blob]
            /\ call' = Entering("createPin", in.pin, UndefinedBlob, in.store)
            /\ created' = IF o.blob.kind = "enc" THEN in.pin ELSE <<>>
            /\ run' = IF o.blob.kind = "enc" THEN <<>> ELSE run
            /\ afterReset' = FALSE
            /\ isPinVerified' = (o.blob.kind = "enc" \/ isPinVerified)
            /\ derivedEncryptionKey' =
                   IF o.blob.kind = "enc"
                   THEN DeriveEncryptionKey(in.pin, FromBase64(o.blob.data.encryptionSalt))
                   ELSE derivedEncryptionKey
            /\ UNCHANGED <<now, persisted, vault, callers, unlocked, session, sealed,
                           issued>>

CreatePinUpTo(max) ==
    \E in \in CreateInputs(saltCounter) :
        \E o \in {CreatePinHashOutcome(in.pin, state, saltCounter, in.store # "unavailable",
                                        in.store = "encryptThrows")} :
            /\ Idle
            /\ o.drew => saltCounter < max
            /\ state' = o.state
            /\ saltCounter' = IF o.drew THEN saltCounter + 1 ELSE saltCounter
            /\ result' = [NoResult EXCEPT !.blob = o.blob]
            /\ call' = Entering("createPin", in.pin, UndefinedBlob, in.store)
            /\ created' = IF o.blob.kind = "enc" THEN in.pin ELSE <<>>
            /\ run' = IF o.blob.kind = "enc" THEN <<>> ELSE run
            /\ afterReset' = FALSE
            /\ UNCHANGED <<now, isPinVerified, derivedEncryptionKey, persisted,
                           vault, callers, unlocked, session, sealed, issued>>

CreatePin == CreatePinUpTo(MaxCreates)

VerifyPinWith(in) ==
    \E o \in {VerifyPinOutcome(in.pin, in.record, state, now, derivedEncryptionKey,
                                isPinVerified, in.store # "unavailable",
                                in.store = "encryptThrows")} :
        /\ Idle
        /\ state' = o.state
        /\ isPinVerified' = o.isPinVerified
        /\ derivedEncryptionKey' = o.key
        /\ result' = o.result
        /\ call' = [Entering("verifyPin", in.pin, in.record, in.store)
                       EXCEPT !.compared = o.compared, !.zeroed = o.zeroed]
        /\ created' = <<>>
        /\ run' = NextRun(in.pin, in.record, o)
        /\ afterReset' = FALSE
        /\ unlocked' = (o.result.success \/ unlocked)
        /\ session' = IF o.result.success /\ Len(in.record.data.encryptionSalt) > 0
                      THEN [pin |-> in.pin, salt |-> in.record.data.encryptionSalt]
                      ELSE session
        /\ UNCHANGED <<now, saltCounter, persisted, vault, callers, sealed, issued>>

VerifyPin == \E in \in VerifyInputs(persisted) : VerifyPinWith(in)

GetLockoutStatus ==
    \E in \in StatusInputs(persisted) :
        \E o \in {GetLockoutStatusOutcome(in.record, state, now, in.store # "unavailable")} :
            /\ Idle
            /\ state' = o.state
            /\ result' = [NoResult EXCEPT !.locked = o.status.locked,
                                          !.lockoutSeconds = o.status.lockoutSeconds,
                                          !.remainingAttempts = o.status.remainingAttempts]
            /\ call' = Entering("getLockoutStatus", <<>>, in.record, in.store)
            /\ created' = <<>>
            /\ afterReset' = FALSE
            /\ UNCHANGED <<now, isPinVerified, derivedEncryptionKey,
                           saltCounter, persisted, run, vault, callers, unlocked,
                   session, sealed, issued>>

ResetAttempts ==
    /\ Idle
    /\ created' = <<>>
    /\ state' = Reset
    /\ result' = NoResult
    /\ call' = Entering("resetAttempts", <<>>, UndefinedBlob, "ok")
    /\ afterReset' = TRUE
    /\ UNCHANGED <<now, isPinVerified, derivedEncryptionKey, saltCounter,
                   persisted, run, vault, callers, unlocked,
                   session, sealed, issued>>

MarkVerified ==
    /\ Idle
    /\ created' = <<>>
    /\ isPinVerified' = TRUE
    /\ result' = NoResult
    /\ call' = Entering("markVerified", <<>>, UndefinedBlob, "ok")
    /\ afterReset' = FALSE
    /\ UNCHANGED <<now, state, derivedEncryptionKey, saltCounter, persisted, run,
                   vault, callers, unlocked,
                   session, sealed, issued>>

ClearVerification ==
    \E cleared \in {ClearDerivedKey(derivedEncryptionKey)} :
        /\ Idle
        /\ created' = <<>>
        /\ isPinVerified' = FALSE
        /\ derivedEncryptionKey' = cleared.key
        /\ result' = NoResult
        /\ call' = [Entering("clearVerification", <<>>, UndefinedBlob, "ok")
                       EXCEPT !.zeroed = cleared.zeroed]
        /\ afterReset' = FALSE
        /\ unlocked' = FALSE
        /\ session' = NoSession
        /\ UNCHANGED <<now, state, saltCounter, persisted, run, vault, callers,
                       sealed, issued>>

Initialize ==
    \E cleared \in {ClearDerivedKey(derivedEncryptionKey)} :
        /\ Idle
        /\ created' = <<>>
        /\ isPinVerified' = FALSE
        /\ derivedEncryptionKey' = cleared.key
        /\ state' = Reset
        /\ result' = NoResult
        /\ call' = [Entering("initialize", <<>>, UndefinedBlob, "ok")
                       EXCEPT !.zeroed = cleared.zeroed]
        /\ afterReset' = FALSE
        /\ unlocked' = FALSE
        /\ session' = NoSession
        /\ UNCHANGED <<now, saltCounter, persisted, run, vault, callers, sealed, issued>>

\* --------------------------------------------------------------------------
\* Encryption of the caller's payloads, and verification of records without
\* encryptionSalt.  In the session specification the caller keeps the last payload
\* blob it was handed and the clock stands still.
\* --------------------------------------------------------------------------
VerifyStored == \E in \in StoredInputs(persisted) : VerifyPinWith(in)

VerifyLegacy == \E in \in LegacyInputs(persisted) : VerifyPinWith(in)

\* a text with code points of one, two, three and four UTF-8 bytes
Secret == Str(<<115, 233, 8364, 55357, 56832>>)

Payloads == {Secret}

\* also the empty string, and a string that ends in a high surrogate
AllPayloads == Payloads \cup {Str(<<>>), Str(<<115, 55296>>)}

\* randomBytes(ivLength): any of the nonces
Ivs == {RandomBytes(-1), RandomBytes(-2)}

\* the blob handed to decryptWith...: the one kept, or it with the nonce, the tag or
\* the ciphertext changed
Tampered(blob) ==
    LET combined == FromBase64(blob)
    IN  {ToBase64([combined EXCEPT ![1] = iv]) : iv \in Ivs \ {combined[1]}}
            \cup {ToBase64([combined EXCEPT ![2] = <<"flipped", combined[2]>>]),
                  ToBase64([combined EXCEPT ![3] = <<"flipped", combined[3]>>])}

\* a payload sealed in an earlier session under the key of the persisted record
SealedEarlier(stored) ==
    IF stored.kind = "enc" /\ Len(stored.data.encryptionSalt) > 0
    THEN EncryptWithKey(Secret,
                        DeriveEncryptionKey(FromBase64(stored.data.hash)[2],
                                            FromBase64(stored.data.encryptionSalt)),
                        RandomBytes(-1))
    ELSE NullData

BlobInputs(kept, stored) ==
    IF kept = NullData THEN {SealedEarlier(stored)} ELSE {kept} \cup Tampered(kept)

\* the encryptionSalt strings a caller can take from the record (none: null), also
\* one spelled differently
SaltInputs(stored) ==
    {stored.data.encryptionSalt, Respelled(stored.data.encryptionSalt), stored.data.salt}

EncryptWithPinOutcome(data, pin, encryptionSalt, iv) ==
    IF encryptionSalt = NullData THEN NullData
    ELSE LET salt == FromBase64(encryptionSalt)
             key == DeriveEncryptionKey(pin, salt)
         IN  EncryptWithKey(data, key, iv)

DecryptWithPinOutcome(encryptedData, pin, encryptionSalt) ==
    IF encryptionSalt = NullData THEN NullData
    ELSE LET salt == FromBase64(encryptionSalt)
             key == DeriveEncryptionKey(pin, salt)
         IN  DecryptWithKey(encryptedData, key)

\* EncryptWithVerifiedKeyOutcome without the check for a missing key
EncryptWithVerifiedKeyOutcomeNoGuard(data, key, iv) == EncryptWithKey(data, key, iv)

EncryptWithVerifiedKeyOutcome(data, key, iv) ==
    IF key = NoKey THEN NullData ELSE EncryptWithKey(data, key, iv)

DecryptWithVerifiedKeyOutcome(encryptedData, key) ==
    IF key = NoKey THEN NullData ELSE DecryptWithKey(encryptedData, key)

\* the key that sealed a payload blob, and the PIN and salt string it derives from
KeyOf(blob) == FromBase64(blob)[3][2]

\* decryptWithPin is tried on the blob kept under every PIN and salt, and on the
\* changed blobs under the PIN and salt that sealed them
UnsealInputs(kept, stored) ==
    {[blob |-> kept, pin |-> p, salt |-> x] : p \in GoodPins, x \in SaltInputs(stored)}
        \cup (IF kept = NullData THEN {}
              ELSE {[blob |-> b, pin |-> KeyOf(kept)[2], salt |-> ToBase64(KeyOf(kept)[3])] :
                      b \in Tampered(kept)})

EncryptWithPinOf(data) ==
    \E pin \in GoodPins, salt \in SaltInputs(persisted), iv \in Ivs :
        /\ Idle
        /\ call' = [Entering("encryptWithPin", pin, UndefinedBlob, "ok")
                       EXCEPT !.data = data, !.salt = salt]
        /\ result' = [NoResult EXCEPT !.data = EncryptWithPinOutcome(data, pin, salt, iv)]
        /\ created' = <<>>
        /\ afterReset' = FALSE
        /\ UNCHANGED <<now, state, isPinVerified, derivedEncryptionKey, saltCounter,
                       persisted, run, vault, callers, unlocked,
                   session, sealed, issued>>

EncryptWithPin == \E data \in Payloads : EncryptWithPinOf(data)

DecryptWithPin ==
    \E in \in UnsealInputs(vault, persisted) :
        /\ Idle
        /\ call' = [Entering("decryptWithPin", in.pin, UndefinedBlob, "ok")
                       EXCEPT !.data = in.blob, !.salt = in.salt]
        /\ result' = [NoResult EXCEPT
                         !.data = DecryptWithPinOutcome(in.blob, in.pin, in.salt)]
        /\ created' = <<>>
        /\ afterReset' = FALSE
        /\ UNCHANGED <<now, state, isPinVerified, derivedEncryptionKey, saltCounter,
                       persisted, run, vault, callers, unlocked,
                   session, sealed, issued>>

EncryptWithVerifiedKeyOf(data) ==
    \E iv \in Ivs :
        /\ Idle
        /\ call' = [Entering("encryptWithVerifiedKey", <<>>, UndefinedBlob, "ok")
                       EXCEPT !.data = data]
        /\ result' = [NoResult EXCEPT
                         !.data = EncryptWithVerifiedKeyOutcome(data, derivedEncryptionKey, iv)]
        /\ created' = <<>>
        /\ afterReset' = FALSE
        /\ UNCHANGED <<now, state, isPinVerified, derivedEncryptionKey, saltCounter,
                       persisted, run, vault, callers, unlocked,
                   session, sealed, issued>>

EncryptWithVerifiedKey == \E data \in Payloads : EncryptWithVerifiedKeyOf(data)

DecryptWithVerifiedKey ==
    \E blob \in BlobInputs(vault, persisted) :
        /\ Idle
        /\ call' = [Entering("decryptWithVerifiedKey", <<>>, UndefinedBlob, "ok")
                       EXCEPT !.data = blob]
        /\ result' = [NoResult EXCEPT
                         !.data = DecryptWithVerifiedKeyOutcome(blob, derivedEncryptionKey)]
        /\ created' = <<>>
        /\ afterReset' = FALSE
        /\ UNCHANGED <<now, state, isPinVerified, derivedEncryptionKey, saltCounter,
                       persisted, run, vault, callers, unlocked,
                   session, sealed, issued>>

Encrypting == call.op \in {"encryptWithPin", "encryptWithVerifiedKey"}

Decrypting == call.op \in {"decryptWithPin", "decryptWithVerifiedKey"}

\* the call returns a payload blob; the caller keeps it in place of the one it had
Keep ==
    /\ Encrypting
    /\ result.data # NullData
    /\ vault' = result.data
    /\ result' = NoResult
    /\ call' = NoCall
    /\ UNCHANGED <<now, state, isPinVerified, derivedEncryptionKey, saltCounter,
                   persisted, created, run, afterReset, callers, unlocked,
                   session, sealed, issued>>

\* the same, the caller also noting what it had encrypted and under which PIN and
\* encryptionSalt (those of the session for encryptWithVerifiedKey)
KeepSealed ==
    /\ Encrypting
    /\ result.data # NullData
    /\ vault' = result.data
    /\ sealed' = [op |-> call.op, data |-> call.data,
                  by |-> IF call.op = "encryptWithPin"
                         THEN [pin |-> call.pin, salt |-> call.salt]
                         ELSE session]
    /\ result' = NoResult
    /\ call' = NoCall
    /\ UNCHANGED <<now, state, isPinVerified, derivedEncryptionKey, saltCounter,
                   persisted, created, run, afterReset, callers, unlocked,
                   session, issued>>

Next ==
    \/ Tick
    \/ Return
    \/ CreatePin
    \/ VerifyPin
    \/ GetLockoutStatus
    \/ ResetAttempts
    \/ MarkVerified
    \/ ClearVerification
    \/ Initialize
    \/ EncryptWithVerifiedKey
    \/ DecryptWithVerifiedKey

Spec == Init /\ [][Next]_vars

SessionNext ==
    \/ Return
    \/ Keep
    \/ CreatePin
    \/ VerifyStored
    \/ VerifyLegacy
    \/ ClearVerification
    \/ EncryptWithPin
    \/ DecryptWithPin
    \/ EncryptWithVerifiedKey
    \/ DecryptWithVerifiedKey

SessionSpec == Init /\ [][SessionNext]_vars

\* --------------------------------------------------------------------------
\* Asynchronous callers.  Each reads the persisted record, calls verifyPin with it and
\* persists the updatedEncryptedData it gets; verifyPin itself runs to completion, the
\* reads and writes of the record interleave.  The record was created before and has
\* been through attempts already.
\* --------------------------------------------------------------------------
\* the record createPinHash makes of a PIN, carrying a given lockout
RecordOf(pin, n, lockout) ==
    [kind |-> "enc",
     data |-> [hash |-> ToBase64(HashPin(pin, RandomBytes(2 * n + 1))),
               salt |-> ToBase64(RandomBytes(2 * n + 1)),
               encryptionSalt |-> ToBase64(RandomBytes(2 * n + 2)),
               lockout |-> lockout]]

\* lockout states the manager serializes: the zero state, three failures, and one
\* failure after a lockout that has been served
EarlierStates ==
    {CreateDefaultState,
     RecordFailure(RecordFailure(RecordFailure(CreateDefaultState, StartMs).state,
                                 StartMs).state, StartMs).state,
     RecordFailure([CreateDefaultState EXCEPT !.lockoutCount = 1], StartMs).state}

CallersInit ==
    /\ now = StartMs
    /\ state = CreateDefaultState
    /\ isPinVerified = FALSE
    /\ derivedEncryptionKey = NoKey
    /\ saltCounter = 1
    /\ persisted \in {RecordOf(Pin1, 0, Serialize(s)) : s \in EarlierStates}
    /\ result = NoResult
    /\ call = NoCall
    /\ created = <<>>
    /\ run = <<>>
    /\ afterReset = FALSE
    /\ vault = NullData
    /\ callers = [i \in Callers |-> Waiting]
    /\ unlocked = FALSE
    /\ session = NoSession
    /\ sealed = NoSeal
    /\ issued = << <<persisted.data.salt, persisted.data.encryptionSalt>> >>

Rounds == callers[1].rounds + callers[2].rounds

CallerRead(i) ==
    /\ callers[i].pc \in {"start", "done"}
    /\ Rounds < MaxRounds
    /\ callers' = [callers EXCEPT ![i] = Reading(persisted, callers[i].rounds + 1)]
    /\ UNCHANGED <<now, state, isPinVerified, derivedEncryptionKey, saltCounter,
                   persisted, result, call, created, run, afterReset, vault, unlocked,
                   session, sealed, issued>>

CallerVerify(i) ==
    /\ callers[i].pc = "read"
    /\ \E pin \in GoodPins :
        \E o \in {VerifyPinOutcome(pin, callers[i].record, state, now,
                                    derivedEncryptionKey, isPinVerified, TRUE, FALSE)} :
            /\ state' = o.state
            /\ isPinVerified' = o.isPinVerified
            /\ derivedEncryptionKey' = o.key
            /\ callers' = [callers EXCEPT ![i].pc = "verified", ![i].pin = pin,
                                          ![i].out = o.result,
                                          ![i].inOrder = (callers[i].record = persisted)]
            /\ unlocked' = (o.result.success \/ unlocked)
            /\ session' = IF o.result.success
                             /\ Len(callers[i].record.data.encryptionSalt) > 0
                          THEN [pin |-> pin, salt |-> callers[i].record.data.encryptionSalt]
                          ELSE session
            /\ UNCHANGED <<now, saltCounter, persisted, result, call, created, run,
                           afterReset, vault, sealed, issued>>

CallerPersist(i) ==
    /\ callers[i].pc = "verified"
    /\ persisted' = IF callers[i].out.blob.kind = "enc" THEN callers[i].out.blob
                    ELSE persisted
    /\ callers' = [callers EXCEPT ![i].pc = "done"]
    /\ UNCHANGED <<now, state, isPinVerified, derivedEncryptionKey, saltCounter,
                   result, call, created, run, afterReset, vault, unlocked,
                   session, sealed, issued>>

CallersNext ==
    \/ Tick
    \/ \E i \in Callers : CallerRead(i)
    \/ \E i \in Callers : CallerVerify(i)
    \/ \E i \in Callers : CallerPersist(i)

CallersSpec == CallersInit /\ [][CallersNext]_vars

\* --------------------------------------------------------------------------
\* Payloads of every kind, encrypted and decrypted in both modes.  A record exists; the
\* caller notes what it sealed.
\* --------------------------------------------------------------------------
CodecInit ==
    /\ now = StartMs
    /\ state = CreateDefaultState
    /\ isPinVerified = FALSE
    /\ derivedEncryptionKey = NoKey
    /\ saltCounter = 1
    /\ persisted = RecordOf(Pin1, 0, Serialize(CreateDefaultState))
    /\ result = NoResult
    /\ call = NoCall
    /\ created = <<>>
    /\ run = <<>>
    /\ afterReset = FALSE
    /\ vault = NullData
    /\ callers = [i \in Callers |-> Waiting]
    /\ unlocked = FALSE
    /\ session = NoSession
    /\ sealed = NoSeal
    /\ issued = << <<persisted.data.salt, persisted.data.encryptionSalt>> >>

EncryptTextWithPin == \E data \in AllPayloads : EncryptWithPinOf(data)

EncryptTextWithVerifiedKey == \E data \in AllPayloads : EncryptWithVerifiedKeyOf(data)

CodecNext ==
    \/ Return
    \/ KeepSealed
    \/ VerifyStored
    \/ ClearVerification
    \/ EncryptTextWithPin
    \/ EncryptTextWithVerifiedKey
    \/ DecryptWithPin
    \/ DecryptWithVerifiedKey

CodecSpec == CodecInit /\ [][CodecNext]_vars

\* --------------------------------------------------------------------------
\* The lockout over many cycles.  A record exists and carries what earlier attempts
\* left in it; records written by other versions may carry no lockout member, or one
\* the manager does not accept.
\* --------------------------------------------------------------------------
\* four failures after twelve lockouts that have been served
AtCap == [count |-> MaxAttempts - 1, lastAttempt |-> StartMs, lockedUntil |-> Null,
          lockoutCount |-> MaxLockoutMultiplier]

SeasonedStates == EarlierStates \cup {AtCap}

LockoutInit ==
    /\ now = StartMs
    /\ state = CreateDefaultState
    /\ isPinVerified = FALSE
    /\ derivedEncryptionKey = NoKey
    /\ saltCounter = 1
    /\ persisted \in {RecordOf(Pin1, 0, Serialize(s)) : s \in SeasonedStates}
    /\ result = NoResult
    /\ call = NoCall
    /\ created = <<>>
    /\ run = <<>>
    /\ afterReset = FALSE
    /\ vault = NullData
    /\ callers = [i \in Callers |-> Waiting]
    /\ unlocked = FALSE
    /\ session = NoSession
    /\ sealed = NoSeal
    /\ issued = << <<persisted.data.salt, persisted.data.encryptionSalt>> >>

MalformedLockouts == {UndefinedLockout, PartialLockout}

WithLockout(blob, lockout) == [blob EXCEPT !.data.lockout = lockout]

MalformedInputs(stored) ==
    {[pin |-> p, record |-> WithLockout(stored, l), store |-> "ok"] :
        p \in GoodPins, l \in MalformedLockouts}

VerifyMalformed == \E in \in MalformedInputs(persisted) : VerifyPinWith(in)

LockoutNext ==
    \/ Tick
    \/ Return
    \/ VerifyPin
    \/ VerifyMalformed
    \/ GetLockoutStatus

LockoutSpec == LockoutInit /\ [][LockoutNext]_vars

\* --------------------------------------------------------------------------
\* Several records created one after another.  The caller notes the salts of every
\* record createPin hands back.
\* --------------------------------------------------------------------------
MaxRecords == 3

CreateMore == CreatePinUpTo(MaxRecords)

\* the salts of a record
SaltsOf(blob) == <<blob.data.salt, blob.data.encryptionSalt>>

ReturnNoting ==
    /\ ~Idle
    /\ persisted' = IF result.blob.kind = "enc" THEN result.blob ELSE persisted
    /\ issued' = IF call.op = "createPin" /\ result.blob.kind = "enc"
                 THEN Append(issued, SaltsOf(result.blob))
                 ELSE issued
    /\ result' = NoResult
    /\ call' = NoCall
    /\ UNCHANGED <<now, state, isPinVerified, derivedEncryptionKey, saltCounter,
                   created, run, afterReset, vault, callers, unlocked,
                   session, sealed>>

SaltsNext ==
    \/ ReturnNoting
    \/ CreateMore
    \/ VerifyStored

SaltsSpec == Init /\ [][SaltsNext]_vars

\* --------------------------------------------------------------------------
\* New records created while a session is open, records with and without
\* encryptionSalt verified.
\* --------------------------------------------------------------------------
RenewalNext ==
    \/ ReturnNoting
    \/ CreateMore
    \/ VerifyStored
    \/ VerifyLegacy
    \/ ClearVerification

RenewalSpec == Init /\ [][RenewalNext]_vars

\* --------------------------------------------------------------------------
\* Properties
\* --------------------------------------------------------------------------
\* this step is a verifyPin call
VerifyStep == Idle /\ call'.op = "verifyPin"

\* the record of the last call decrypts and parses (DecryptPinData's cases, spelled out)
Readable(c) ==
    /\ c.store # "unavailable"
    /\ c.record.kind = "enc"
    /\ c.record.data.hash # <<>>
    /\ c.record.data.salt # <<>>

\* the PIN a record was created from: the PIN inside its (symbolic) hash
RecordPin(blob) == FromBase64(blob.data.hash)[2]

Snapshot(c) == c.record.data.lockout

RejectedAsLocked == call.op = "verifyPin" /\ ~call.compared /\ result.locked

\* C1: createPin(p) followed at once by verifyPin(p, that record), the store working,
\* returns success:true, locked:false, remainingAttempts = 5 - in every state.
C1_RoundTrip ==
    [][(/\ created # <<>>
        /\ VerifyStep
        /\ call'.pin = created /\ call'.record = persisted /\ call'.store = "ok")
       => (/\ result'.success /\ ~result'.locked
           /\ result'.remainingAttempts = MaxAttempts)]_vars

\* C2: verifyPin with a well-formed PIN on a readable record whose lockedUntil is in the
\* future returns success:false, locked:true, remainingAttempts 0, compares no hash,
\* and leaves the lock, the verified flag and the cached key as they were.
C2_NoVerificationDuringLockout ==
    [][(/\ VerifyStep /\ call'.pin \in GoodPins /\ Readable(call')
        /\ Truthy(Snapshot(call').lockedUntil) /\ now < Snapshot(call').lockedUntil)
       => (/\ ~result'.success /\ result'.locked /\ result'.remainingAttempts = 0
           /\ ~call'.compared
           /\ state'.lockedUntil = Snapshot(call').lockedUntil
           /\ isPinVerified' = isPinVerified
           /\ derivedEncryptionKey' = derivedEncryptionKey)]_vars

\* C3: on a chain of wrong attempts that starts at a record with the zero lockout state,
\* the first four return locked:false with remainingAttempts 4, 3, 2, 1 and the fifth
\* returns locked:true with remainingAttempts 0.
C3_ThresholdCounting ==
    \A i \in 1..Len(run) :
        /\ i < MaxAttempts => ~run[i].locked /\ run[i].remainingAttempts = MaxAttempts - i
        /\ i = MaxAttempts => run[i].locked /\ run[i].remainingAttempts = 0

C3_Witness == Len(run) = MaxAttempts

\* a verifyPin call whose failed comparison crossed the threshold
Crossing == call.op = "verifyPin" /\ call.compared /\ result.locked

\* C4: the k-th crossing of the threshold returns lockoutSeconds = 300 * min(k, 12) and
\* sets lockedUntil = now + baseLockout * lockoutCount, lockoutCount = min(k, 12) being
\* the count after this crossing.
C4_EscalationDuration ==
    Crossing =>
        /\ result.lockoutSeconds = 300 * state.lockoutCount
        /\ state.lockedUntil = now + BaseLockoutMs * state.lockoutCount

\* a verifyPin call with a well-formed PIN other than the one the readable record was
\* created from
WrongPinCall ==
    /\ call.op = "verifyPin" /\ call.pin \in GoodPins /\ Readable(call)
    /\ FromBase64(call.record.data.hash)[1] = "pbkdf2-sha512"
    /\ RecordPin(call.record) # call.pin

\* C5 as stated: a wrong PIN never succeeds, and when the call is not rejected as locked
\* remainingAttempts is one less than max - count of the record handed in.
C5_NegativeRoundTrip_Original ==
    WrongPinCall =>
        /\ ~result.success
        /\ ~RejectedAsLocked =>
               result.remainingAttempts = MaxAttempts - Snapshot(call).count - 1

\* the snapshot's lock has expired, or its last attempt is older than the reset window
ResetOnLoad(l, t) ==
    \/ Truthy(l.lockedUntil) /\ t >= l.lockedUntil
    \/ Truthy(l.lastAttempt) /\ t - l.lastAttempt > 15 * 60 * 1000

\* C5 (amended): a wrong PIN never succeeds, and when the call is not rejected as locked
\* remainingAttempts is max - count - 1 for a snapshot that is neither expired nor stale,
\* and max - 1 for one whose lock has expired or whose last attempt is more than
\* 15 minutes old.
C5_NegativeRoundTrip ==
    WrongPinCall =>
        /\ ~result.success
        /\ ~result.threw
        /\ ~RejectedAsLocked =>
               result.remainingAttempts =
                   IF ResetOnLoad(Snapshot(call), now)
                   THEN MaxAttempts - 1
                   ELSE MaxAttempts - Snapshot(call).count - 1

C5_Witness ==
    /\ WrongPinCall /\ call.compared
    /\ Snapshot(call).count = MaxAttempts
    /\ Truthy(Snapshot(call).lockedUntil) /\ now >= Snapshot(call).lockedUntil
    /\ result.remainingAttempts = MaxAttempts - 1

\* C6: verifyPin with a string that is not six digits returns {success:false,
\* locked:false, remainingAttempts:5} without updatedRecord and changes neither the
\* lockout state, the verified flag, the cached key nor the record.
C6_FormatRejectionIsFree ==
    [][(VerifyStep /\ call'.pin \in BadPins)
       => (/\ result' = [NoResult EXCEPT !.remainingAttempts = 5]
           /\ ~call'.compared
           /\ state' = state
           /\ isPinVerified' = isPinVerified
           /\ derivedEncryptionKey' = derivedEncryptionKey)]_vars

C6_Witness ==
    /\ call.op = "verifyPin" /\ call.pin \in BadPins
    /\ state.count > 0 /\ isPinVerified /\ derivedEncryptionKey # NoKey
    /\ result.remainingAttempts = MaxAttempts

\* the record of the last call cannot be decrypted or parsed
Unreadable(c) == c.record \in BadBlobs \/ c.store = "unavailable"

\* C7: verifyPin with a well-formed PIN on an unreadable record does not throw, returns
\* {success:false, locked:true, remainingAttempts:0, lockoutSeconds:3600} and leaves the
\* manager at count = 5, lockoutCount = 12, lockedUntil = now + 60 minutes.
C7_CorruptedRecord ==
    (call.op = "verifyPin" /\ call.pin \in GoodPins /\ Unreadable(call)) =>
        /\ result = [NoResult EXCEPT !.locked = TRUE, !.lockoutSeconds = 3600]
        /\ state.count = 5
        /\ state.lockoutCount = 12
        /\ state.lockedUntil = now + 60 * 60 * 1000

C7_Witness ==
    /\ call.op = "verifyPin" /\ call.pin \in GoodPins
    /\ call.store = "unavailable" /\ call.record.kind = "enc"
    /\ result.locked /\ state.lockoutCount = MaxLockoutMultiplier

\* C8: a verifyPin call that leaves the manager's state different from the snapshot in
\* the record it was given returns an updatedRecord whose lockout is that state.
C8_MutationReturnsRecord ==
    (/\ call.op = "verifyPin" /\ call.pin \in GoodPins /\ ~result.threw
     /\ Serialize(state) # Snapshot(call))
    => (/\ result.blob.kind = "enc"
        /\ result.blob.data.lockout = Serialize(state))

\* C9: the record a successful createPin returns carries the zero lockout state.
C9_CreateEmbedsZeroLockout ==
    (call.op = "createPin" /\ result.blob.kind = "enc") =>
        /\ result.blob.data.lockout.count = 0
        /\ result.blob.data.lockout.lockedUntil = Null
        /\ result.blob.data.lockout.lockoutCount = 0

\* C10: a successful verifyPin returns {success:true, locked:false, remainingAttempts:5},
\* and its updatedRecord, when there is one, keeps hash, salt and encryptionSalt and
\* carries count = 0, no lockedUntil and lockoutCount = 0.
C10_SuccessResetsLockout ==
    (call.op = "verifyPin" /\ result.success) =>
        /\ ~result.locked
        /\ result.remainingAttempts = 5
        /\ result.lockoutSeconds = Null
        /\ result.blob.kind = "enc" =>
            /\ result.blob.data.hash = call.record.data.hash
            /\ result.blob.data.salt = call.record.data.salt
            /\ result.blob.data.encryptionSalt = call.record.data.encryptionSalt
            /\ result.blob.data.lockout.count = 0
            /\ result.blob.data.lockout.lockedUntil = Null
            /\ result.blob.data.lockout.lockoutCount = 0

C10_Witness ==
    /\ call.op = "verifyPin" /\ result.success /\ result.blob.kind = "enc"
    /\ Snapshot(call).lockoutCount > 0

\* the record handed to the last call carries an encryptionSalt
Salted(c) == Len(c.record.data.encryptionSalt) > 0

\* the key verifyPin derives from the PIN entered and the record's encryptionSalt
SessionKeyOf(c) == DeriveEncryptionKey(c.pin, FromBase64(c.record.data.encryptionSalt))

\* C11 as stated: after every verifyPin that returns success:true a key is cached, it is
\* the one derived from the entered PIN and the record's encryptionSalt, and the buffer
\* of the key cached before has been overwritten with zeros - also for a record without
\* encryptionSalt.
C11_SuccessCachesKey_Original ==
    [][(VerifyStep /\ result'.success)
       => (/\ derivedEncryptionKey' # NoKey
           /\ derivedEncryptionKey' = SessionKeyOf(call')
           /\ call'.zeroed = derivedEncryptionKey)]_vars

\* C11 (amended): after a successful verifyPin on a record that carries an
\* encryptionSalt a key is cached, it is the one derived from the entered PIN and that
\* salt, and the buffer of the key cached before has been overwritten with zeros; on a
\* record without encryptionSalt the cache is left as it was and nothing is zeroed.
C11_SuccessCachesKey ==
    [][(VerifyStep /\ result'.success)
       => IF Salted(call')
          THEN /\ derivedEncryptionKey' # NoKey
               /\ derivedEncryptionKey' = SessionKeyOf(call')
               /\ call'.zeroed = derivedEncryptionKey
          ELSE /\ derivedEncryptionKey' = derivedEncryptionKey
               /\ call'.zeroed = NoKey]_vars

C11_Witness ==
    /\ call.op = "verifyPin" /\ result.success /\ Salted(call)
    /\ call.zeroed # NoKey
    /\ derivedEncryptionKey = SessionKeyOf(call)

UsingVerifiedKey == call.op \in {"encryptWithVerifiedKey", "decryptWithVerifiedKey"}

\* C12: while no verifyPin has succeeded since the last clearVerification or initialize
\* (or since construction) no key is cached, whatever else was called, and
\* encryptWithVerifiedKey and decryptWithVerifiedKey return null.
C12_SessionIsolation ==
    ~unlocked =>
        /\ derivedEncryptionKey = NoKey
        /\ UsingVerifiedKey => result.data = NullData

C12_Witness ==
    /\ call.op = "encryptWithVerifiedKey" /\ ~unlocked
    /\ isPinVerified /\ persisted.kind = "enc" /\ state.count > 0
    /\ result.data = NullData

\* a lock that is present and later than the current time comes with a count at the
\* threshold
LockImpliesThreshold(l) ==
    (Truthy(l.lockedUntil) /\ l.lockedUntil > now) => l.count >= 5

\* C13: in every state of the LockoutManager and in every record createPin or verifyPin
\* hands back, a lockedUntil later than the current time comes with count >= 5.
C13_LockImpliesThreshold ==
    /\ LockImpliesThreshold(state)
    /\ result.blob.kind = "enc" => LockImpliesThreshold(result.blob.data.lockout)

C13_Witness ==
    /\ call.op = "verifyPin" /\ result.blob.kind = "enc"
    /\ Truthy(result.blob.data.lockout.lockedUntil)
    /\ result.blob.data.lockout.lockedUntil > now
    /\ result.blob.data.lockout.count = MaxAttempts

\* a caller whose verifyPin has returned
Returned(c) == c.pc \in {"verified", "done"}

\* a caller whose verifyPin was given the last record persisted, failed and handed
\* back a record
FailedInOrder(c) ==
    /\ Returned(c) /\ c.inOrder
    /\ ~c.out.success /\ c.out.blob.kind = "enc"

AfterInactivity(c) ==
    /\ Truthy(c.record.data.lockout.lastAttempt)
    /\ c.out.blob.data.lockout.lastAttempt - c.record.data.lockout.lastAttempt
           > 15 * 60 * 1000

C15_ResetAttemptsRecovers ==
    [][(/\ afterReset /\ VerifyStep
        /\ Len(run) = MaxAttempts
        /\ persisted.kind = "enc" /\ call'.record = persisted /\ call'.store = "ok"
        /\ Truthy(persisted.data.lockout.lockedUntil)
        /\ now < persisted.data.lockout.lockedUntil
        /\ call'.pin = RecordPin(persisted))
       => (result'.success /\ ~result'.locked)]_vars

\* a caller that made a wrong attempt which went through the comparison
WrongAttempt(c) ==
    /\ c.pc = "done"
    /\ c.record.kind = "enc" /\ c.pin # RecordPin(c.record)
    /\ ~c.out.success /\ c.out.blob.kind = "enc"

\* C16: when two callers have each read the same record, made a wrong attempt on it and
\* persisted what verifyPin handed back, the record persisted last carries a count two
\* higher than the record they read, or a lock.
C16_ConcurrentAttemptsCounted ==
    (/\ WrongAttempt(callers[1]) /\ WrongAttempt(callers[2])
     /\ callers[1].record = callers[2].record
     /\ persisted \in {callers[1].out.blob, callers[2].out.blob})
    => \/ persisted.data.lockout.count = callers[1].record.data.lockout.count + 2
       \/ /\ Truthy(persisted.data.lockout.lockedUntil)
          /\ persisted.data.lockout.lockedUntil > now

\* C17: verifyPin with a well-formed PIN on a record that decrypts to a payload with
\* non-empty hash and salt returns a result and does not throw.
C17_VerifyNeverThrows ==
    (call.op = "verifyPin" /\ call.pin \in GoodPins /\ Readable(call)) => ~result.threw

\* C18: createPin with a PIN that is not six digits, or with the secret store
\* unavailable or throwing, returns null and leaves the LockoutManager state, the
\* verified flag and the cached key as they were.
C18_CreateFailsClosed ==
    [][(/\ Idle /\ call'.op = "createPin"
        /\ (call'.pin \in BadPins \/ call'.store # "ok"))
       => (/\ result'.blob = NullBlob
           /\ state' = state
           /\ isPinVerified' = isPinVerified
           /\ derivedEncryptionKey' = derivedEncryptionKey)]_vars

\* C19: clearVerification() leaves the verified flag false and no key cached, the buffer
\* of the key cached before overwritten with zeros, and the LockoutManager state as it
\* was; initialize() does the same and leaves the LockoutManager in the zero state.
C19_SessionTeardown ==
    [][/\ (Idle /\ call'.op = "clearVerification")
           => (/\ ~isPinVerified' /\ derivedEncryptionKey' = NoKey
               /\ call'.zeroed = derivedEncryptionKey
               /\ state' = state)
       /\ (Idle /\ call'.op = "initialize")
           => (/\ ~isPinVerified' /\ derivedEncryptionKey' = NoKey
               /\ call'.zeroed = derivedEncryptionKey
               /\ state' = [count |-> 0, lastAttempt |-> 0, lockedUntil |-> Null,
                            lockoutCount |-> 0])]_vars

C19_Witness ==
    /\ call.op = "clearVerification" /\ call.zeroed # NoKey
    /\ ~isPinVerified /\ derivedEncryptionKey = NoKey
    /\ Truthy(state.lockedUntil)

\* the key the last decryptWith... call used
KeyUsed ==
    IF call.op = "decryptWithPin"
    THEN DeriveEncryptionKey(call.pin, FromBase64(call.salt))
    ELSE derivedEncryptionKey

\* C20: decryptWithPin and decryptWithVerifiedKey return null for a blob that
\* encryptWithPin or encryptWithVerifiedKey produced when the key differs from the one
\* that sealed it (another PIN, another encryptionSalt) and when the nonce, the tag or
\* the ciphertext of the blob has been changed.
C20_DecryptionFailsClosed ==
    (/\ Decrypting /\ vault # NullData
     /\ call.data \in {vault} \cup Tampered(vault)
     /\ (call.data # vault \/ KeyUsed # KeyOf(vault)))
    => result.data = NullData

C20_Witness ==
    /\ call.op = "decryptWithVerifiedKey" /\ vault # NullData
    /\ call.data \in Tampered(vault)
    /\ derivedEncryptionKey = KeyOf(vault)
    /\ result.data = NullData

\* the PIN and the encryptionSalt string the last decryptWith... call worked with
Credentials ==
    IF call.op = "decryptWithPin" THEN [pin |-> call.pin, salt |-> call.salt] ELSE session

\* the blob kept is decrypted under the PIN and encryptionSalt it was encrypted under
Unsealing ==
    /\ Decrypting /\ vault # NullData /\ call.data = vault
    /\ sealed.by # NoSession /\ Credentials = sealed.by

\* no surrogate without its partner among the code units
RECURSIVE WellFormedUnits(_)
WellFormedUnits(units) ==
    IF units = <<>> THEN TRUE
    ELSE IF IsHighSurrogate(units[1])
         THEN /\ Len(units) >= 2 /\ IsLowSurrogate(units[2])
              /\ WellFormedUnits(Tail(Tail(units)))
         ELSE ~IsLowSurrogate(units[1]) /\ WellFormedUnits(Tail(units))

\* C21 as stated: for every string d, what encryptWithPin(d, p, s) or, in a session opened
\* by verifyPin with p on a record with encryptionSalt s, encryptWithVerifiedKey(d)
\* returned is decrypted to d by decryptWithPin(blob, p, s) and, in such a session, by
\* decryptWithVerifiedKey(blob).
C21_EncryptionRoundTrip_Original ==
    Unsealing => result.data = sealed.data

\* C21 (amended): the same for every string d in which no surrogate code unit stands
\* without its partner.
C21_EncryptionRoundTrip ==
    (Unsealing /\ WellFormedUnits(sealed.data[2])) => result.data = sealed.data

C21_Witness ==
    /\ Unsealing /\ call.op = "decryptWithPin" /\ sealed.op = "encryptWithVerifiedKey"
    /\ sealed.data = Secret /\ result.data = Secret

\* a verifyPin call, the store available, with the PIN the readable record was created
\* from: the stored hash is the hash of the entered PIN and the record's salt
CorrectPinCall ==
    /\ call.op = "verifyPin" /\ Readable(call)
    /\ FromBase64(call.record.data.hash)
           = HashPin(call.pin, FromBase64(call.record.data.salt))

\* the snapshot of the last call carries a lock that is over at the time of the call
LockServed(c) == Truthy(Snapshot(c).lockedUntil) /\ now >= Snapshot(c).lockedUntil

\* C22: verifyPin with the correct PIN on a readable record whose lock has lockedUntil
\* <= now, the store available, reaches the hash comparison, is not rejected as locked
\* and returns success:true - whatever the manager held before the call.
C22_LockoutRecoverable ==
    (CorrectPinCall /\ LockServed(call)) =>
        /\ call.compared
        /\ ~result.locked
        /\ result.success

C22_Witness ==
    /\ CorrectPinCall /\ LockServed(call)
    /\ Snapshot(call).count = MaxAttempts
    /\ now = Snapshot(call).lockedUntil
    /\ result.success

\* the last call loaded the snapshot of a readable record (verifyPin with a well-formed
\* PIN, or getLockoutStatus with the record)
LoadingCall ==
    /\ call.op \in {"verifyPin", "getLockoutStatus"}
    /\ call.op = "verifyPin" => call.pin \in GoodPins
    /\ Readable(call)
    /\ IsValidLockoutState(Snapshot(call))

\* the manager's state after the last call, which loaded the state s: getLockoutStatus
\* and a verifyPin rejected as locked leave s, a failed comparison records one failure
AfterLoading(s) ==
    \/ call.op = "getLockoutStatus" /\ state = s
    \/ call.op = "verifyPin" /\ ~call.compared /\ state = s
    \/ call.op = "verifyPin" /\ call.compared /\ (result.success \/ result.threw)
    \/ /\ call.op = "verifyPin" /\ call.compared /\ ~result.success /\ ~result.threw
       /\ state = [s EXCEPT !.count = s.count + 1, !.lastAttempt = now,
                            !.lockedUntil = state.lockedUntil,
                            !.lockoutCount = state.lockoutCount]
       /\ state.count < MaxAttempts => /\ state.lockedUntil = s.lockedUntil
                                       /\ state.lockoutCount = s.lockoutCount

\* C24: loading a snapshot whose lock is over (lockedUntil <= now), by verifyPin or by
\* getLockoutStatus(record), leaves count 0, no lockedUntil and the snapshot's
\* lockoutCount, also when the snapshot's last attempt is older than the reset window.
C24_EscalationMemorySurvives ==
    (LoadingCall /\ LockServed(call)) =>
        AfterLoading([count |-> 0, lastAttempt |-> 0, lockedUntil |-> Null,
                      lockoutCount |-> Snapshot(call).lockoutCount])

C24_Witness ==
    /\ LoadingCall /\ LockServed(call)
    /\ call.op = "getLockoutStatus"
    /\ now - Snapshot(call).lastAttempt > 15 * 60 * 1000
    /\ state.count = 0 /\ state.lockedUntil = Null
    /\ state.lockoutCount = Snapshot(call).lockoutCount
    /\ state.lockoutCount > 0

\* the snapshot of the last call is stale and not locked at the time of the call: its
\* last attempt is more than 15 minutes old and it carries no lock that still runs
StaleUnlocked(c) ==
    /\ Truthy(Snapshot(c).lastAttempt)
    /\ now - Snapshot(c).lastAttempt > 15 * 60 * 1000
    /\ ~(Truthy(Snapshot(c).lockedUntil) /\ now < Snapshot(c).lockedUntil)

\* C25 as stated: loading a stale snapshot that is not locked, whether it never carried
\* a lock or its lock is over, leaves the full zero state.
C25_InactivityDecay_Original ==
    (LoadingCall /\ StaleUnlocked(call)) => AfterLoading(CreateDefaultState)

\* C25 (amended): loading a stale snapshot that carries no lock leaves the full zero
\* state; loading a stale snapshot whose lock is over leaves count 0 and no lockedUntil
\* and keeps the snapshot's lockoutCount.
C25_InactivityDecay ==
    (LoadingCall /\ StaleUnlocked(call)) =>
        AfterLoading(IF Truthy(Snapshot(call).lockedUntil)
                     THEN [CreateDefaultState
                              EXCEPT !.lockoutCount = Snapshot(call).lockoutCount]
                     ELSE CreateDefaultState)

C25_Witness ==
    /\ LoadingCall /\ StaleUnlocked(call)
    /\ call.op = "getLockoutStatus"
    /\ Snapshot(call).lockedUntil = Null
    /\ Snapshot(call).count > 0 /\ Snapshot(call).lockoutCount > 0
    /\ state = CreateDefaultState

\* the manager holds the maximum lockout as applyMaxLockout set it at the time of its
\* lastAttempt, and that lock still runs
MaxLockoutRunning ==
    /\ state = ApplyMaxLockout(state.lastAttempt).state
    /\ now < state.lockedUntil

\* C26: while the maximum lockout applied at time t is what the manager holds,
\* getLockoutStatus() without a record reports locked:true with remainingAttempts 0 at
\* every time before t + 60 minutes.
C26_MaxLockoutLastsFullDuration ==
    [][(/\ MaxLockoutRunning
        /\ Idle /\ call'.op = "getLockoutStatus" /\ call'.record = UndefinedBlob)
       => (result'.locked /\ result'.remainingAttempts = 0)]_vars

\* C27: the lockoutCount of the manager's state, of every record returned and of the
\* record persisted is between 0 and 12, and every lockoutSeconds returned by verifyPin
\* or getLockoutStatus is at most 3600.
C27_EscalationCapped ==
    /\ state.lockoutCount \in 0..12
    /\ persisted.data.lockout.lockoutCount \in 0..12
    /\ result.blob.data.lockout.lockoutCount \in 0..12
    /\ result.lockoutSeconds # Null => result.lockoutSeconds <= 3600

\* the threshold is crossed on a snapshot that is at the cap already
C27_Witness ==
    /\ Crossing
    /\ Snapshot(call).lockoutCount = 12
    /\ state.lockoutCount = 12
    /\ result.lockoutSeconds = 3600
    /\ result.blob.data.lockout.lockoutCount = 12

\* a verifyPin call with a well-formed PIN on a readable record whose lockout member is
\* missing or is not a valid lockout state
MalformedSnapshotCall ==
    /\ call.op = "verifyPin" /\ call.pin \in GoodPins /\ Readable(call)
    /\ Snapshot(call) \in MalformedLockouts

\* C28: verifyPin on a readable record whose lockout snapshot is missing or invalid gets
\* past the load to the hash comparison and makes it from the zero state, whatever the
\* manager held and whatever the snapshot's members say: the correct PIN succeeds, a
\* wrong PIN returns locked:false with remainingAttempts 4, does not throw, and leaves
\* count 1, lockoutCount 0.
C28_MalformedSnapshotStartsClean ==
    MalformedSnapshotCall =>
        /\ call.compared
        /\ CorrectPinCall => result.success
        /\ WrongPinCall =>
            /\ ~result.threw
            /\ ~result.success /\ ~result.locked
            /\ result.remainingAttempts = MaxAttempts - 1
            /\ state = [count |-> 1, lastAttempt |-> now, lockedUntil |-> Null,
                        lockoutCount |-> 0]

\* the snapshot says three failures and two lockouts; the call counts its one failure
C28_Witness ==
    /\ MalformedSnapshotCall /\ WrongPinCall
    /\ Snapshot(call) = PartialLockout
    /\ result.remainingAttempts = MaxAttempts - 1
    /\ result.blob.data.lockout.count = 1

\* pairs of salts with no salt in common
Apart(p, q) == {p[1], p[2]} \cap {q[1], q[2]} = {}

\* C23: every record createPin returns has a hash salt different from its encryption
\* salt and shares no salt, hence no pair of salts, with any record createPin returned
\* before; and the updatedRecord of verifyPin has the salts of the record it was given.
C23_SaltSeparation ==
    /\ \A i \in 1..Len(issued) :
        /\ issued[i][1] # issued[i][2]
        /\ \A j \in 1..Len(issued) : i # j => Apart(issued[i], issued[j])
    /\ (call.op = "createPin" /\ result.blob.kind = "enc") =>
           /\ result.blob.data.salt # result.blob.data.encryptionSalt
           /\ \A j \in 1..Len(issued) : Apart(SaltsOf(result.blob), issued[j])
    /\ (call.op = "verifyPin" /\ result.blob.kind = "enc") =>
           SaltsOf(result.blob) = SaltsOf(call.record)

\* createPin returns a third record for a PIN while the persisted one, made for the same
\* PIN, has been through verifyPin
C23_Witness ==
    /\ call.op = "createPin" /\ result.blob.kind = "enc"
    /\ Len(issued) >= 2
    /\ RecordPin(result.blob) = RecordPin(persisted)
    /\ SaltsOf(persisted) = issued[Len(issued)]
    /\ persisted.data.lockout.lastAttempt > 0

\* this step is getLockoutStatus called with a record (a string; not undefined or null)
StatusStep ==
    /\ Idle /\ call'.op = "getLockoutStatus"
    /\ call'.record.kind \notin {"undefined", "null"}

\* what verifyPin would do, called with this PIN where the getLockoutStatus of this step
\* is called: same record, same instant, same state of the service and of the store
VerifyInstead(pin) ==
    VerifyPinOutcome(pin, call'.record, state, now, derivedEncryptionKey, isPinVerified,
                     call'.store # "unavailable", FALSE)

\* C29: getLockoutStatus(record) reports locked:true exactly when verifyPin with a
\* well-formed PIN on the same record at the same instant is rejected as locked; and
\* when it reports locked:false with remainingAttempts r, verifyPin with a wrong PIN
\* returns remainingAttempts r - 1 (and locked exactly when r = 1).
C29_StatusAgreesWithVerify ==
    [][StatusStep =>
        \A pin \in GoodPins :
            LET v == VerifyInstead(pin)
            IN  /\ result'.locked <=> (~v.compared /\ v.result.locked)
                /\ (/\ ~result'.locked
                    /\ FromBase64(call'.record.data.hash)[1] = "pbkdf2-sha512"
                    /\ RecordPin(call'.record) # pin)
                   => (/\ v.result.remainingAttempts = result'.remainingAttempts - 1
                       /\ v.result.locked <=> result'.remainingAttempts = 1)]_vars

\* C30: whenever a key is cached (hasEncryptionKey()), the session is verified
\* (isPinCurrentlyVerified()).
C30_KeyImpliesVerified ==
    derivedEncryptionKey # NoKey => isPinVerified

\* a verifyPin that succeeded on a service holding a key already: the old key is wiped,
\* the new one cached, the session verified
C30_Witness ==
    /\ call.op = "verifyPin" /\ result.success
    /\ call.zeroed # NoKey
    /\ derivedEncryptionKey # NoKey /\ isPinVerified

\* C31: a verifyPin call that does not succeed - bad format, unreadable record, locked,
\* wrong PIN - leaves the verified flag and the cached key as they were and wipes no
\* key; and while a verifyPin that cached a key has not been followed by
\* clearVerification or initialize, encryptWithVerifiedKey returns a ciphertext,
\* whatever attempts failed in between.
C31_FailureKeepsSession ==
    [][/\ (VerifyStep /\ ~result'.success)
           => (/\ isPinVerified' = isPinVerified
               /\ derivedEncryptionKey' = derivedEncryptionKey
               /\ call'.zeroed = NoKey)
       /\ (Idle /\ call'.op = "encryptWithVerifiedKey" /\ session # NoSession)
           => result'.data # NullData]_vars

\* the wrong attempt that locks the record, made while a session with a key is open
C31_Witness ==
    /\ Crossing /\ WrongPinCall
    /\ isPinVerified /\ derivedEncryptionKey # NoKey
    /\ session # NoSession

\* the last call was a verifyPin that returned a result
VerifyReturned == call.op = "verifyPin" /\ ~result.threw

\* C32: every result verifyPin returns is well-formed - success implies not locked and
\* remainingAttempts 5; locked implies no success, remainingAttempts 0 and lockoutSeconds
\* of at least 1; neither implies remainingAttempts from 1 to 5 and no lockoutSeconds -
\* and the count in the manager, in the record returned and in the record persisted is
\* from 0 to 5.
C32_VerifyResultWellFormed ==
    /\ VerifyReturned =>
        /\ result.success =>
               ~result.locked /\ result.remainingAttempts = 5
        /\ result.locked =>
               /\ ~result.success /\ result.remainingAttempts = 0
               /\ result.lockoutSeconds # Null /\ result.lockoutSeconds >= 1
        /\ (~result.success /\ ~result.locked) =>
               /\ result.remainingAttempts \in 1..5
               /\ result.lockoutSeconds = Null
    /\ state.count \in 0..5
    /\ result.blob.data.lockout.count \in 0..5
    /\ persisted.data.lockout.count \in 0..5

\* rejected as locked half way through a lock of ten minutes
C32_Witness ==
    /\ VerifyReturned /\ RejectedAsLocked /\ Readable(call)
    /\ Snapshot(call).count = 5
    /\ result.lockoutSeconds = 300
    /\ result.remainingAttempts = 0

\* C33: getLockoutStatus(record) on a record that cannot be decrypted or parsed returns
\* {locked:true, lockoutSeconds:3600, remainingAttempts:0} and leaves the LockoutManager
\* state, the verified flag and the cached key as they were.
C33_StatusOfUnreadableIsPure ==
    [][(Idle /\ call'.op = "getLockoutStatus" /\ Unreadable(call'))
       => (/\ result' = [NoResult EXCEPT !.locked = TRUE, !.lockoutSeconds = 3600]
           /\ state' = state
           /\ isPinVerified' = isPinVerified
           /\ derivedEncryptionKey' = derivedEncryptionKey)]_vars

\* this step is a createPin call
CreateStep == Idle /\ call'.op = "createPin"

\* createPin leaves the verified flag and the cached key as they were and wipes no key
CreateKeepsSession ==
    CreateStep => (/\ isPinVerified' = isPinVerified
                   /\ derivedEncryptionKey' = derivedEncryptionKey
                   /\ call'.zeroed = NoKey)

\* C34 as stated, at the states where the most recent successful verifyPin is the call
\* just made: createPin leaves the verified flag and the cached key as they were, and a
\* cached key is the key derived from the PIN and the encryptionSalt of that verifyPin.
C34_CreateKeepsSession_Original ==
    /\ [][CreateKeepsSession]_vars
    /\ []((call.op = "verifyPin" /\ result.success /\ derivedEncryptionKey # NoKey)
             => derivedEncryptionKey = SessionKeyOf(call))

\* C34 (amended): createPin leaves the verified flag and the cached key as they were,
\* and a cached key is the key derived from the PIN and the encryptionSalt of the most
\* recent successful verifyPin on a record that carries an encryptionSalt.
C34_CreateKeepsSession ==
    /\ [][CreateKeepsSession]_vars
    /\ [](derivedEncryptionKey # NoKey
             => (/\ session # NoSession
                 /\ derivedEncryptionKey
                        = DeriveEncryptionKey(session.pin, FromBase64(session.salt))))

\* createPin returns a record for another PIN while the key of an earlier verifyPin is
\* cached: the key is that verifyPin's, not the new record's
C34_Witness ==
    /\ call.op = "createPin" /\ result.blob.kind = "enc"
    /\ derivedEncryptionKey # NoKey /\ isPinVerified
    /\ call.pin # session.pin
    /\ result.blob.data.encryptionSalt # session.salt
    /\ derivedEncryptionKey = DeriveEncryptionKey(session.pin, FromBase64(session.salt))

====
